---- MODULE Spec2Model ----
(***************************************************************************)
(* The request dispatch pipeline of SwaggerClient.api                      *)
(* (packages/client/src/client.ts): one callable per operation, each call  *)
(* negotiating a content type, binding parameters, assembling the URL,     *)
(* applying the security context, dispatching the transport call and       *)
(* driving the retry loop.                                                 *)
(*                                                                         *)
(* Strings the code inspects character by character (URLs, path templates) *)
(* are sequences of atoms: the atom "/" is one slash, a placeholder atom   *)
(* is the text "{name}", any other atom is a run of text holding neither.  *)
(* Parameter values are plain text: no "/" and no "$" replacement pattern. *)
(***************************************************************************)
EXTENDS Integers, Sequences, FiniteSets, TLC

\* ------------------------------------------------------------------ bounds
\* Number of invocations of the proxy's callables in one behaviour.
MaxCalls == 2
\* Largest number of retry-policy invocations followed in one call chain.
MaxRetries == 2
\* Longest text, in atoms, given to a function applied on its own.
MaxLen == 2

Calls == 1..MaxCalls

\* ------------------------------------------------------- strings as atoms
Slash == "/"

Placeholder(name) == "{" \o name \o "}"

\* String.prototype.replace(pattern: string, value): the first occurrence only.
RECURSIVE ReplaceFirst(_, _, _)
ReplaceFirst(s, pat, val) ==
  IF s = <<>> THEN <<>>
  ELSE IF Head(s) = pat THEN <<val>> \o Tail(s)
  ELSE <<Head(s)>> \o ReplaceFirst(Tail(s), pat, val)

\* A slip: the slash inserted whatever the two ends are.
urlConcatAlwaysInsert(a, b) == a \o <<Slash>> \o b

urlConcat(a, b) ==
  IF Len(a) > 0 /\ Len(b) > 0
  THEN LET ta == a[Len(a)] = Slash
           tb == b[1] = Slash
       IN IF ta = tb
          THEN IF ta THEN a \o Tail(b) ELSE a \o <<Slash>> \o b
          ELSE a \o b
  ELSE a \o b

\* new url.URL(text) for the absolute URLs the model builds:
\* <<protocol, "/", "/", host>> followed by the path; an empty path reads "/".
ParseURL(s) ==
  [protocol |-> s[1],
   host     |-> s[4],
   pathname |-> IF Len(s) > 4 THEN SubSeq(s, 5, Len(s)) ELSE <<Slash>>,
   search   |-> <<>>]

\* ------------------------------------------------------------ maps, lists
NoMap == [k \in {} |-> ""]

\* obj[key] = value
SetKey(f, k, v) == [n \in DOMAIN f \cup {k} |-> IF n = k THEN v ELSE f[n]]

\* Object.assign(target, source)
Assign(f, g) == [n \in DOMAIN f \cup DOMAIN g |-> IF n \in DOMAIN g THEN g[n] ELSE f[n]]

\* obj[name] = value on an object whose keys are listed in insertion order
\* (Object.keys): an existing key keeps its place.
RECURSIVE SetPair(_, _, _)
SetPair(q, k, v) ==
  IF q = <<>> THEN <<[name |-> k, value |-> v]>>
  ELSE IF Head(q).name = k THEN <<[name |-> k, value |-> v]>> \o Tail(q)
  ELSE <<Head(q)>> \o SetPair(Tail(q), k, v)

\* --------------------------------------------------- operation descriptors
Ops == {"getPet", "copyPet"}

\* findApisByTag(spec, tag): items {path, method, api: {operationId, parameters}}.
Operation(o) ==
  IF o = "getPet"
  THEN [path |-> <<Slash, "pets", Slash, Placeholder("id")>>,
        method |-> "get",
        api |-> [operationId |-> "getPet",
                 parameters |-> << [name |-> "id",   in |-> "path"],
                                   [name |-> "x",    in |-> "query"],
                                   [name |-> "Auth", in |-> "header"] >>]]
  ELSE [path |-> <<Slash, "pets", Slash, Placeholder("id"),
                   Slash, "copy", Slash, Placeholder("id")>>,
        method |-> "post",
        api |-> [operationId |-> "copyPet",
                 parameters |-> << [name |-> "id", in |-> "path"] >>]]

\* ------------------------------------------------------- content negotiation
\* Payload kinds: what Buffer.isBuffer and typeof tell apart.
DataKinds == {"undefined", "buffer", "object", "array", "null", "string", "number"}

\* typeof data === 'object'
IsObjectLike(d) == d \in {"buffer", "object", "array", "null"}

\* A slip: the structured rule listed before the binary one.
CONTENT_TYPE_TESTERS_StructuredFirst ==
  << [d \in DataKinds |-> IF IsObjectLike(d) THEN "application/json;charset=utf-8" ELSE ""],
     [d \in DataKinds |-> IF d = "buffer" THEN "application/octet-stream" ELSE ""],
     [d \in DataKinds |-> IF d = "string" THEN "text/plain" ELSE ""] >>

CONTENT_TYPE_TESTERS ==
  << [d \in DataKinds |-> IF d = "buffer" THEN "application/octet-stream" ELSE ""],
     [d \in DataKinds |-> IF IsObjectLike(d) THEN "application/json;charset=utf-8" ELSE ""],
     [d \in DataKinds |-> IF d = "string" THEN "text/plain" ELSE ""] >>

RECURSIVE ReduceTesters(_, _, _)
ReduceTesters(prev, i, data) ==
  IF i > Len(CONTENT_TYPE_TESTERS) THEN prev
  ELSE ReduceTesters(IF prev # "" THEN prev ELSE CONTENT_TYPE_TESTERS[i][data], i + 1, data)

defaultContentTypeResolve(data) ==
  LET r == ReduceTesters("", 1, data)
  IN IF r # "" THEN r ELSE "text/plain"

\* ---------------------------------------------------------- parameter binding
\* item.api.parameters.forEach(...): headers and queries are the call's own
\* objects, path is the operation's apiPath variable.
RECURSIVE BindFrom(_, _, _, _)
BindFrom(parameters, optParams, i, acc) ==
  IF i > Len(parameters) THEN acc
  ELSE LET p == parameters[i]
       IN BindFrom(parameters, optParams, i + 1,
            IF p.name \notin DOMAIN optParams THEN acc
            ELSE IF p.in = "header"
              THEN [acc EXCEPT !.headers = SetKey(@, p.name, optParams[p.name])]
            ELSE IF p.in = "query"
              THEN [acc EXCEPT !.queries = SetPair(@, p.name, optParams[p.name])]
            ELSE IF p.in = "path"
              THEN [acc EXCEPT !.path = ReplaceFirst(@, Placeholder(p.name), optParams[p.name])]
            ELSE acc)

BindParams(parameters, optParams, path, contentType) ==
  BindFrom(parameters, optParams, 1,
           [headers |-> SetKey(NoMap, "content-type", contentType),
            queries |-> <<>>,
            path    |-> path])

\* ------------------------------------------------------------ call arguments
\* ApiRequestOptionsOO: an absent field is its empty value ("undefined", NoMap,
\* <<>>, ""), which every test of the code (x && ..., x || ...) treats like a
\* missing one; a call without an argument object behaves as NoArg.
NoArg ==
  [data |-> "undefined", params |-> NoMap, headers |-> NoMap, queries |-> <<>>,
   baseURL |-> <<>>, protocol |-> "", host |-> "", securityContext |-> "none"]

ArgFull ==
  [NoArg EXCEPT !.data = "object",
                !.params = [id |-> "1", x |-> "v", Auth |-> "t", extra |-> "ignored"]]

ArgOther ==
  [NoArg EXCEPT !.data = "string",
                !.params = [id |-> "2"],
                !.headers = [Authorization |-> "Y"],
                !.queries = <<[name |-> "q", value |-> "1"]>>,
                !.securityContext = "call"]

ArgSet == {ArgFull, ArgOther}

\* ------------------------------------------------------------ security context
\* IApiSecurityContext objects, named by where they are configured; each
\* replacer marks its output with the context's name. The context "fresh"
\* answers a new object of its own, dropping what it was given.
headerReplacer(ctx, headers) ==
  IF ctx = "fresh" THEN SetKey(NoMap, "Authorization", ctx)
  ELSE SetKey(headers, "Authorization", ctx)

queryReplacer(ctx, queries) ==
  IF ctx = "fresh" THEN <<[name |-> "token", value |-> ctx]>>
  ELSE queries \o <<[name |-> "token", value |-> ctx]>>

\* ------------------------------------------------------------------ rewriters
\* hostRewriter(params): the configured hook answers {host} without protocol.
hostRewriterResult == [protocol |-> "", host |-> "rewritten.host"]

\* What a hostRewriter may answer: each field given or missing; with both
\* missing the answer acts as no answer at all.
HostRewriterResults ==
  {[protocol |-> p, host |-> h] : p \in {"", "https:"}, h \in {"", "rewritten.host"}}

\* urlRewriter(params, apiUrl): the configured hook answers a URL on its own host
\* that keeps the path.
urlRewriterResult(apiUrl) == [apiUrl EXCEPT !.host = "url.host"]

\* What a urlRewriter may answer: nothing (NoUrl), the URL moved to its own
\* host, or a URL of its own that already carries a query.
NoUrl == [protocol |-> "", host |-> "", pathname |-> <<>>, search |-> <<>>]
UrlRewriterKinds == {"nothing", "moved", "own"}
UrlRewriterAnswer(kind, apiUrl) ==
  IF kind = "moved" THEN urlRewriterResult(apiUrl)
  ELSE IF kind = "own"
    THEN [protocol |-> "https:", host |-> "own.host", pathname |-> <<Slash, "own">>,
          search |-> <<[name |-> "own", value |-> "1"]>>]
  ELSE NoUrl

\* ------------------------------------------------------------------ doExecute
BodylessMethods == {"get", "delete", "head", "options"}

\* The security context doExecute applies.
SelectSecurityContext(cfg, arg) ==
  IF cfg.apiSecurityContext # "none" THEN cfg.apiSecurityContext ELSE cfg.securityContext

\* The keys doExecute deletes from the copy of the call's options.
DeletedConfigKeys == {"securityContext", "params", "queries", "data", "baseURL"}

\* A slip: the security context's output assigned over the per-call headers.
MergeHeadersContextLast(reqHeaders, perCall) == Assign(perCall, reqHeaders)

\* Object.assign(reqHeaders, apiRequestOptions.headers)
MergeHeaders(reqHeaders, perCall) == Assign(reqHeaders, perCall)

\* apiUrl.protocol = x || apiUrl.protocol; apiUrl.host = y || apiUrl.host
SetOrigin(apiUrl, protocol, host) ==
  [apiUrl EXCEPT !.protocol = IF protocol # "" THEN protocol ELSE @,
                 !.host     = IF host # "" THEN host ELSE @]

\* A slip: the per-call protocol/host applied after the host rewriter's.
RewriteOriginCallLast(apiUrl, arg, configured, result) ==
  SetOrigin(IF configured THEN SetOrigin(apiUrl, result.protocol, result.host)
            ELSE apiUrl,
            arg.protocol, arg.host)

\* The per-call protocol/host, then the host rewriter's when one is configured.
RewriteOrigin(apiUrl, arg, configured, result) ==
  LET own == SetOrigin(apiUrl, arg.protocol, arg.host)
  IN IF configured THEN SetOrigin(own, result.protocol, result.host) ELSE own

\* doExecute from the parameter binding to the transport call, for hooks that
\* return, hostRewriter answering hostResult and urlRewriter an answer of kind
\* urlKind: the operation's apiPath after the binding, and the request handed
\* to axios[item.method].
AssembleRequest(cfg, o, arg, contentType, apiPath, hostResult, urlKind) ==
  LET item     == Operation(o)
      baseUrl  == IF arg.baseURL # <<>> THEN arg.baseURL ELSE cfg.baseUrl
      bound    == BindParams(item.api.parameters, arg.params, apiPath, contentType)
      url0     == ParseURL(urlConcat(baseUrl, bound.path))
      url2     == RewriteOrigin(url0, arg, cfg.hostRewriter, hostResult)
      answer   == UrlRewriterAnswer(urlKind, url2)
      url3     == IF cfg.urlRewriter /\ answer # NoUrl THEN answer ELSE url2
      search0  == bound.queries \o arg.queries
      ctx      == SelectSecurityContext(cfg, arg)
      headers1 == IF ctx # "none" THEN headerReplacer(ctx, bound.headers) ELSE bound.headers
      search1  == IF ctx # "none" THEN queryReplacer(ctx, search0) ELSE search0
      headers2 == MergeHeaders(headers1, arg.headers)
      kept     == [k \in DOMAIN arg \ DeletedConfigKeys |-> arg[k]]
  IN [apiPath |-> bound.path,
      request |->
        [method  |-> item.method,
         url     |-> [url3 EXCEPT !.search = @ \o search1],
         body    |-> IF item.method \in BodylessMethods THEN "undefined" ELSE arg.data,
         headers |-> headers2,
         params  |-> IF "params" \in DOMAIN kept THEN kept.params ELSE NoMap,
         responseType |-> "arraybuffer"]]

\* The same with the answers of the hooks the client is configured with.
BuildRequest(cfg, o, arg, contentType, apiPath) ==
  AssembleRequest(cfg, o, arg, contentType, apiPath, hostRewriterResult, "moved")

\* ------------------------------------------------------------- configuration
\* ISwaggerClientConfig and the ISwaggerApiOptions given to api(): which hooks
\* are configured. Read-only after construction.
BaseUrl == <<"http:", Slash, Slash, "h", Slash, "v1">>

Config(retry, hooks, sec, apiSec) ==
  [baseUrl |-> BaseUrl,
   retryHandler |-> retry,
   contentTypeResolver |-> hooks,
   argRewriter |-> hooks,
   hostRewriter |-> hooks,
   urlRewriter |-> hooks,
   securityContext |-> sec,
   apiSecurityContext |-> apiSec]

Configs ==
  { Config(FALSE, FALSE, "none", "none"),
    Config(TRUE,  FALSE, "none", "none"),
    Config(TRUE,  TRUE,  "client", "none"),
    Config(FALSE, TRUE,  "client", "api") }

\* contentTypeResolver(retryParams, data): the configured resolver names a type
\* for text payloads and answers nothing (null) for the others.
contentTypeResolverResult(data) == IF data = "string" THEN "application/xml" ELSE ""

\* .then(contentType => contentType || self._defaultContentTypeResolve(...))
ResolveContentType(resolved, data) ==
  IF resolved # "" THEN resolved ELSE defaultContentTypeResolve(data)

\* The content type the two .then callbacks settle on.
NegotiatedContentType(cfg, arg) ==
  ResolveContentType(IF cfg.contentTypeResolver
                     THEN contentTypeResolverResult(arg.data) ELSE "",
                     arg.data)

\* ------------------------------------------------------------------- outcomes
NoValue == [kind |-> "none", by |-> "", attempt |-> 0]

\* What a promise settles with, or a handler catches: its kind ("response",
\* "transport", "hook", "policy", "resolver"), the condition behind it, and the
\* attempt (transport calls made so far, this one included) it belongs to.
Outcome(kind, by, attempt) == [kind |-> kind, by |-> by, attempt |-> attempt]

TransportFailures == {"no-response", "status-404"}

\* ------------------------------------------------------------- retry policy
\* What retryHandler's promise resolves to.
Num(n) == [t |-> "number", n |-> n]
RetryDelay == 50
\* "nullish" is null or undefined: the two compare alike in every test the code
\* makes of the result (< 0, === false, === 0).
PolicyResults ==
  { Num(-1), Num(0), Num(RetryDelay), [t |-> "false", n |-> 0], [t |-> "nullish", n |-> 0] }

\* setTimeout(callback, delay): the duration the timer runs, a delay that is not
\* a number counting as the minimum.
MinTimeout == 1
TimerDuration(d) == IF d.t = "number" THEN d.n ELSE MinTimeout

\* What a call of retryHandler comes to: its promise resolves to one of the
\* results, the call throws, or its promise rejects.
PolicyFailures == {[t |-> "throws", n |-> 0], [t |-> "rejects", n |-> 0]}
PolicyOutcomes == PolicyResults \cup PolicyFailures
NoDecision == [t |-> "none", n |-> 0]

\* A slip: delay < 0 alone, false falling through to the timer.
IsAbortNegativeOnly(d) == d.t = "number" /\ d.n < 0

\* delay < 0 || delay === false
IsAbort(d) == (d.t = "number" /\ d.n < 0) \/ d.t = "false"
\* delay === 0
IsImmediate(d) == d.t = "number" /\ d.n = 0

\* -------------------------------------------------------------------- state
VARIABLES
  config,       \* self._config and _options
  apiPath,      \* per operation: the apiPath variable of the forEach callback
  pc,           \* per call: where its chain of callbacks stands
  opOf,         \* per call: the operation invoked
  retryParams,  \* per call: retryParams.arg, the caller's arguments
  callOptions,  \* per call: the callOptions variable
  contentType,  \* per call: the contentType the closure holds
  retryCount,   \* per call: the retryCount variable
  policyArgs,   \* per call: the retry counts handed to retryHandler, in order
  policy,       \* per call: what the retryHandler call in progress comes to
  caught,       \* per call: e of the catch handler awaiting the policy
  promise,      \* per call: state of the promise given to the caller
  settled,      \* per call: what the promise settled with
  req,          \* per call: the request of the transport call in flight
  nDispatch,    \* per call: transport calls made
  timers,       \* per call: durations of the pending setTimeout timers
  sample        \* a function applied on its own: its inputs and its value

vars == <<config, apiPath, pc, opOf, retryParams, callOptions, contentType, retryCount,
          policyArgs, policy, caught, promise, settled, req, nDispatch, timers,
          sample>>

NoOp  == "none"
NoReq == [method |-> "none"]
NoSample == [done |-> FALSE]

\* Nothing invoked yet: the proxy as api() returns it.
Uninvoked ==
  /\ apiPath = [o \in Ops |-> Operation(o).path]
  /\ pc = [c \in Calls |-> "idle"]
  /\ opOf = [c \in Calls |-> NoOp]
  /\ retryParams = [c \in Calls |-> NoArg]
  /\ callOptions = [c \in Calls |-> NoArg]
  /\ contentType = [c \in Calls |-> ""]
  /\ retryCount = [c \in Calls |-> 0]
  /\ policyArgs = [c \in Calls |-> <<>>]
  /\ policy = [c \in Calls |-> NoDecision]
  /\ caught = [c \in Calls |-> NoValue]
  /\ promise = [c \in Calls |-> "none"]
  /\ settled = [c \in Calls |-> NoValue]
  /\ req = [c \in Calls |-> NoReq]
  /\ nDispatch = [c \in Calls |-> 0]
  /\ timers = [c \in Calls |-> <<>>]

Init ==
  /\ config \in Configs
  /\ Uninvoked
  /\ sample = NoSample

\* ------------------------------------------------------------------ attempts
\* What argRewriter answers: nothing (a falsy value), or replaced arguments.
Falsy == [falsy |-> TRUE]
RewriteAnswers == {Falsy, ArgOther}

\* The hooks doExecute calls synchronously, any of which may throw.
Hooks == {"argRewriter", "hostRewriter", "urlRewriter", "headerReplacer", "queryReplacer"}

Throwers(cfg, arg) ==
  {"none"}
    \cup (IF cfg.argRewriter THEN {"argRewriter"} ELSE {})
    \cup (IF cfg.hostRewriter THEN {"hostRewriter"} ELSE {})
    \cup (IF cfg.urlRewriter THEN {"urlRewriter"} ELSE {})
    \cup (IF SelectSecurityContext(cfg, arg) # "none"
          THEN {"headerReplacer", "queryReplacer"} ELSE {})

\* Where a synchronous throw of doExecute() lands, by the caller of
\* doExecuteWithRetry: the Promise executor ("first") and the policy's then
\* callback ("immediate", followed by .catch(reject)) turn it into reject(e);
\* the setTimeout callback ("timer") has no handler around it.
ThrowSettles(how) == how # "timer"

\* A slip: the policy consulted whether configured or not.
HasRetryPolicyAlways(cfg) == TRUE

\* if (self._config.retryHandler)
HasRetryPolicy(cfg) == cfg.retryHandler

\* A slip: ++retryCount, the value after the increment.
PolicyCountPreIncrement(count) == count + 1

\* retryCount++ as an argument: the value before the increment.
PolicyCount(count) == count

\* A variant: the content type negotiated again from the attempt's arguments.
HeaderContentTypePerAttempt(held, arg) == NegotiatedContentType(config, arg)

\* 'content-type': contentType, the value the closure holds.
HeaderContentType(held, arg) == held

\* A variant: .catch(() => reject(e)), the original failure kept.
RejectedByCatchOriginal(policyFailure, original) == original

\* .catch(reject) after the policy's .then: rejects with the policy's failure.
RejectedByCatch(policyFailure, original) == policyFailure

\* A slip: the promise settled with the chain left where it was, its transport
\* promise still to be handled.
SettleChainOpen(c, how, v) ==
  /\ pc' = pc
  /\ promise' = [promise EXCEPT ![c] = how]
  /\ settled' = [settled EXCEPT ![c] = v]

\* reject(e) / resolve(v) of the promise given to the caller.
Settle(c, how, v) ==
  /\ pc' = [pc EXCEPT ![c] = "done"]
  /\ promise' = [promise EXCEPT ![c] = how]
  /\ settled' = [settled EXCEPT ![c] = v]

\* One run of doExecuteWithRetry up to the transport call: doExecute() with
\* argRewriter answering `replaced` and hook `thrower` throwing ("none": none).
Attempt(c, how, ct, replaced, thrower) ==
  LET o     == opOf[c]
      arg   == IF config.argRewriter /\ thrower # "argRewriter" /\ replaced # Falsy
               THEN replaced ELSE callOptions[c]
      built == BuildRequest(config, o, arg, HeaderContentType(ct, arg), apiPath[o])
  IN /\ thrower \in Throwers(config, arg)
     /\ replaced \in (IF config.argRewriter /\ thrower # "argRewriter"
                      THEN RewriteAnswers ELSE {Falsy})
     /\ callOptions' = [callOptions EXCEPT ![c] = arg]
     /\ apiPath' = IF thrower = "argRewriter" THEN apiPath
                   ELSE [apiPath EXCEPT ![o] = built.apiPath]
     /\ IF thrower = "none"
        THEN /\ req' = [req EXCEPT ![c] = built.request]
             /\ nDispatch' = [nDispatch EXCEPT ![c] = @ + 1]
             /\ pc' = [pc EXCEPT ![c] = "inflight"]
             /\ UNCHANGED <<promise, settled>>
        ELSE /\ UNCHANGED <<req, nDispatch>>
             /\ IF ThrowSettles(how)
                THEN Settle(c, "rejected", Outcome("hook", "thrown", nDispatch[c] + 1))
                ELSE /\ pc' = [pc EXCEPT ![c] = "uncaught"]
                     /\ UNCHANGED <<promise, settled>>

\* ------------------------------------------------------------------- actions
\* proxy[operationId](arg): the getter's function up to the first .then; the
\* content-type resolver, when configured, is called here and returns a promise.
Invoke(c, o, a) ==
  /\ pc[c] = "idle"
  /\ c > 1 => pc[c - 1] # "idle"
  /\ pc' = [pc EXCEPT ![c] = "resolving"]
  /\ opOf' = [opOf EXCEPT ![c] = o]
  /\ retryParams' = [retryParams EXCEPT ![c] = a]
  /\ callOptions' = [callOptions EXCEPT ![c] = a]
  /\ retryCount' = [retryCount EXCEPT ![c] = 0]
  /\ promise' = [promise EXCEPT ![c] = "pending"]
  /\ UNCHANGED <<config, sample, apiPath, contentType, policyArgs, policy, caught,
                 settled, req, nDispatch, timers>>

\* The same call when the content-type resolver throws: the exception leaves
\* the callable and no promise is returned.
InvokeThrows(c) ==
  /\ pc[c] = "idle"
  /\ c > 1 => pc[c - 1] # "idle"
  /\ config.contentTypeResolver
  /\ pc' = [pc EXCEPT ![c] = "threw"]
  /\ UNCHANGED <<config, sample, apiPath, opOf, retryParams, callOptions, contentType,
                 retryCount, policyArgs, policy, caught, promise, settled, req,
                 nDispatch, timers>>

\* The resolver's promise resolves: contentType is fixed, the promise executor
\* runs doExecuteWithRetry for the first time.
Start(c, replaced, thrower) ==
  /\ pc[c] = "resolving"
  /\ LET ct == NegotiatedContentType(config, retryParams[c])
     IN /\ contentType' = [contentType EXCEPT ![c] = ct]
        /\ Attempt(c, "first", ct, replaced, thrower)
  /\ UNCHANGED <<config, sample, opOf, retryParams, retryCount, policyArgs, policy,
                 caught, timers>>

\* The resolver's promise rejects: so does the promise given to the caller.
ResolverRejects(c) ==
  /\ pc[c] = "resolving"
  /\ config.contentTypeResolver
  /\ Settle(c, "rejected", Outcome("resolver", "rejected", 0))
  /\ UNCHANGED <<config, sample, apiPath, opOf, retryParams, callOptions, contentType,
                 retryCount, policyArgs, policy, caught, req, nDispatch, timers>>

\* The transport call resolves: .then(res => out).then(resolve).
TransportSucceeds(c) ==
  /\ pc[c] = "inflight"
  /\ Settle(c, "resolved", Outcome("response", "status-200", nDispatch[c]))
  /\ req' = [req EXCEPT ![c] = NoReq]
  /\ UNCHANGED <<config, sample, apiPath, opOf, retryParams, callOptions, contentType,
                 retryCount, policyArgs, policy, caught, nDispatch, timers>>

\* The transport call rejects with failure f: the catch handler of
\* doExecuteWithRetry runs with e and, when a policy is configured, calls
\* retryHandler(retryParams, retryCount++, e), a call that comes to d.
TransportFails(c, f, d) ==
  /\ pc[c] = "inflight"
  /\ req' = [req EXCEPT ![c] = NoReq]
  /\ LET e == Outcome("transport", f, nDispatch[c])
     IN IF HasRetryPolicy(config)
        THEN /\ retryCount[c] < MaxRetries
             /\ d \in PolicyOutcomes
             /\ policyArgs' = [policyArgs EXCEPT ![c] = Append(@, PolicyCount(retryCount[c]))]
             /\ retryCount' = [retryCount EXCEPT ![c] = @ + 1]
             /\ caught' = [caught EXCEPT ![c] = e]
             /\ policy' = [policy EXCEPT ![c] = d]
             /\ pc' = [pc EXCEPT ![c] = "deciding"]
             /\ UNCHANGED <<promise, settled>>
        ELSE /\ d = NoDecision
             /\ Settle(c, "rejected", e)
             /\ UNCHANGED <<policyArgs, retryCount, caught, policy>>
  /\ UNCHANGED <<config, sample, apiPath, opOf, retryParams, callOptions, contentType,
                 nDispatch, timers>>

\* retryHandler's promise resolves: the .then(delay => ...) callback.
PolicyAnswers(c, replaced, thrower) ==
  /\ pc[c] = "deciding"
  /\ policy[c] \in PolicyResults
  /\ policy' = [policy EXCEPT ![c] = NoDecision]
  /\ caught' = [caught EXCEPT ![c] = NoValue]
  /\ IF IsAbort(policy[c])
     THEN /\ Settle(c, "rejected", caught[c])
          /\ replaced = Falsy /\ thrower = "none"
          /\ UNCHANGED <<apiPath, callOptions, req, nDispatch, timers>>
     ELSE IF IsImmediate(policy[c])
     THEN /\ Attempt(c, "immediate", contentType[c], replaced, thrower)
          /\ UNCHANGED timers
     ELSE /\ pc' = [pc EXCEPT ![c] = "delaying"]
          /\ timers' = [timers EXCEPT ![c] = Append(@, TimerDuration(policy[c]))]
          /\ replaced = Falsy /\ thrower = "none"
          /\ UNCHANGED <<apiPath, callOptions, req, nDispatch, promise, settled>>
  /\ UNCHANGED <<config, sample, opOf, retryParams, contentType, retryCount, policyArgs>>

\* retryHandler threw (safePromiseCallback made it a rejection) or its promise
\* rejects: .catch(reject).
PolicyFails(c) ==
  /\ pc[c] = "deciding"
  /\ policy[c] \in PolicyFailures
  /\ Settle(c, "rejected",
            RejectedByCatch(Outcome("policy", "failed", nDispatch[c]), caught[c]))
  /\ policy' = [policy EXCEPT ![c] = NoDecision]
  /\ caught' = [caught EXCEPT ![c] = NoValue]
  /\ UNCHANGED <<config, sample, apiPath, opOf, retryParams, callOptions, contentType,
                 retryCount, policyArgs, req, nDispatch, timers>>

\* The delay timer fires: () => doExecuteWithRetry(resolve, reject).
TimerFires(c, replaced, thrower) ==
  /\ pc[c] = "delaying"
  /\ timers[c] # <<>>
  /\ timers' = [timers EXCEPT ![c] = Tail(@)]
  /\ Attempt(c, "timer", contentType[c], replaced, thrower)
  /\ UNCHANGED <<config, sample, opOf, retryParams, contentType, retryCount, policyArgs,
                 policy, caught>>

AttemptInputs == RewriteAnswers \X ({"none"} \cup Hooks)

Next ==
  \E c \in Calls :
    \/ \E o \in Ops, a \in ArgSet : Invoke(c, o, a)
    \/ InvokeThrows(c)
    \/ \E i \in AttemptInputs : Start(c, i[1], i[2])
    \/ ResolverRejects(c)
    \/ TransportSucceeds(c)
    \/ \E f \in TransportFailures, d \in PolicyOutcomes \cup {NoDecision} :
         TransportFails(c, f, d)
    \/ \E i \in AttemptInputs : PolicyAnswers(c, i[1], i[2])
    \/ PolicyFails(c)
    \/ \E i \in AttemptInputs : TimerFires(c, i[1], i[2])

Spec == Init /\ [][Next]_vars

\* ------------------------------------------------- one attempt's assembly
\* doExecute on its own, from the binding to the transport call, over the
\* configurations, arguments and hook answers that meet in it.
AltBaseUrl == <<"https:", Slash, Slash, "alt", Slash, "v2", Slash>>

ArgHeaders ==
  [ArgFull EXCEPT !.headers = ("content-type" :> "text/csv") @@
                              [Auth |-> "mine", Authorization |-> "Y"],
                  !.baseURL = AltBaseUrl]

ArgOrigin == [ArgFull EXCEPT !.protocol = "ftp:", !.host = "call.host"]

ArgProtocol == [ArgOther EXCEPT !.protocol = "ftp:", !.securityContext = "none"]

AssemblyArgs == {NoArg, ArgFull, ArgOther, ArgHeaders, ArgOrigin, ArgProtocol}

AssemblyConfigs ==
  {[Config(FALSE, FALSE, sec, apiSec) EXCEPT !.hostRewriter = h, !.urlRewriter = u] :
     sec \in {"none", "client", "fresh"}, apiSec \in {"none", "api"},
     h \in BOOLEAN, u \in BOOLEAN}

AssemblyInit ==
  /\ config \in AssemblyConfigs
  /\ Uninvoked
  /\ sample \in {[done |-> FALSE, o |-> o, arg |-> a, hostResult |-> h, urlKind |-> u,
                   out |-> NoReq] :
                  o \in Ops, a \in AssemblyArgs, h \in HostRewriterResults,
                  u \in UrlRewriterKinds}

\* The first attempt of operation sample.o called with sample.arg.
Assemble ==
  /\ ~sample.done
  /\ sample' = [sample EXCEPT
                  !.done = TRUE,
                  !.out = AssembleRequest(config, sample.o, sample.arg,
                                          NegotiatedContentType(config, sample.arg),
                                          apiPath[sample.o], sample.hostResult,
                                          sample.urlKind).request]
  /\ UNCHANGED <<config, apiPath, pc, opOf, retryParams, callOptions, contentType,
                 retryCount, policyArgs, policy, caught, promise, settled, req,
                 nDispatch, timers>>

AssemblySpec == AssemblyInit /\ [][Assemble]_vars

\* --------------------------------------------------------------- urlConcat
\* SwaggerClient.urlConcat(a, b) on its own, over every pair of short texts.
Texts == UNION {[1..n -> {Slash, "h", "b"}] : n \in 0..MaxLen}

ConcatInit ==
  /\ config \in {Config(FALSE, FALSE, "none", "none")}
  /\ Uninvoked
  /\ sample \in {[done |-> FALSE, a |-> a, b |-> b, out |-> <<>>] : a, b \in Texts}

Concat ==
  /\ ~sample.done
  /\ sample' = [sample EXCEPT !.done = TRUE, !.out = urlConcat(sample.a, sample.b)]
  /\ UNCHANGED <<config, apiPath, pc, opOf, retryParams, callOptions, contentType,
                 retryCount, policyArgs, policy, caught, promise, settled, req,
                 nDispatch, timers>>

ConcatSpec == ConcatInit /\ [][Concat]_vars

\* ----------------------------------------------------- content negotiation
\* The head of the callable on its own: the resolver's promise, then the
\* .then callback that settles the content type, over every kind of payload.
\* What a resolver's promise may resolve to: nothing ("" for null), or a type.
ResolverAnswers == {"", "application/xml", "text/csv"}

NegotiationInit ==
  /\ config \in {[Config(FALSE, FALSE, "none", "none") EXCEPT !.contentTypeResolver = r] :
                   r \in BOOLEAN}
  /\ Uninvoked
  /\ sample \in {[done |-> FALSE, at |-> "called", o |-> o, data |-> d,
                   resolved |-> "", out |-> ""] : o \in Ops, d \in DataKinds}

\* contentTypeResolver && contentTypeResolver(retryParams, data) || Promise.resolve(null)
Resolve(answer) ==
  /\ sample.at = "called"
  /\ answer \in (IF config.contentTypeResolver THEN ResolverAnswers ELSE {""})
  /\ sample' = [sample EXCEPT !.at = "resolved", !.resolved = answer]
  /\ UNCHANGED <<config, apiPath, pc, opOf, retryParams, callOptions, contentType,
                 retryCount, policyArgs, policy, caught, promise, settled, req,
                 nDispatch, timers>>

\* .then(contentType => contentType || self._defaultContentTypeResolve(retryParams, data))
Classify ==
  /\ sample.at = "resolved"
  /\ sample' = [sample EXCEPT !.at = "settled", !.done = TRUE,
                              !.out = ResolveContentType(sample.resolved, sample.data)]
  /\ UNCHANGED <<config, apiPath, pc, opOf, retryParams, callOptions, contentType,
                 retryCount, policyArgs, policy, caught, promise, settled, req,
                 nDispatch, timers>>

NegotiationNext ==
  \/ \E answer \in ResolverAnswers : Resolve(answer)
  \/ Classify

NegotiationSpec == NegotiationInit /\ [][NegotiationNext]_vars

\* ------------------------------------------------------- response mapping
\* extractRef(ref): /#\/(\w+)\/(.*)/ on a reference given as atoms; a missing
\* $ref is the empty text. NoRef is the null of no match.
NoRef == [type |-> "", name |-> <<>>]
extractRef(ref) ==
  IF Len(ref) >= 4 /\ ref[1] = "#" /\ ref[2] = Slash /\ ref[4] = Slash
  THEN [type |-> ref[3], name |-> SubSeq(ref, 5, Len(ref))]
  ELSE NoRef

\* api.specMetadata.classes by getSwaggerDefinitionName: the registered
\* definitions.
DefinitionClasses == {<<"Pet">>}

\* item.api.responses[status]: no descriptor, or {description, schema}.
NoSchema == [present |-> FALSE, ref |-> <<>>]
NoDefinition == [present |-> FALSE, description |-> "", schema |-> NoSchema]
Schemas ==
  {NoSchema} \cup
  {[present |-> TRUE, ref |-> r] :
     r \in {<<"#", Slash, "definitions", Slash, "Pet">>,
            <<"#", Slash, "definitions", Slash, "Ghost">>,
            <<>>}}
ResponseDefinitions ==
  {NoDefinition} \cup
  {[present |-> TRUE, description |-> d, schema |-> sc] :
     d \in {"", "Not found"}, sc \in Schemas}

\* The values a handler puts in data: built by a registered constructor,
\* converted by leafConvertToClassValue, or the decoded body as it came.
Constructed(class, body) == [how |-> "constructed", by |-> class, from |-> body]
Converted(schema, body)  == [how |-> "converted", by |-> schema.ref, from |-> body]
Raw(body)                == [how |-> "raw", by |-> <<>>, from |-> body]

\* .then(res => ...): out.data of the envelope.
ResponseData(definition, body) ==
  LET responseRef == IF definition.present /\ definition.schema.present
                     THEN extractRef(definition.schema.ref) ELSE NoRef
  IN IF responseRef # NoRef /\ responseRef.name \in DefinitionClasses
     THEN Constructed(responseRef.name, body)
     ELSE IF definition.present /\ definition.schema.present
     THEN Converted(definition.schema, body)
     ELSE Raw(body)

\* .catch(err => ...): responseVO.
ErrorData(definition, body) ==
  LET responseRef == IF definition.present /\ definition.schema.present
                     THEN definition.schema.ref ELSE <<>>
      refMatcher  == extractRef(responseRef)
  IN IF refMatcher # NoRef /\ refMatcher.name \in DefinitionClasses
     THEN Constructed(refMatcher.name, body)
     ELSE Raw(body)

\* A slip: err.message || responseDefinition.description.
ErrorMessageTransportFirst(definition, err) ==
  IF err.message # "" THEN err.message ELSE definition.description

\* responseDefinition ? responseDefinition.description || err.message : err.message
ErrorMessage(definition, err) ==
  IF definition.present /\ definition.description # ""
  THEN definition.description ELSE err.message

\* What the transport's promise settles with: a response, or an AxiosError
\* with or without one.
Statuses == {200, 404}
Bodies == {"object", "string"}
Responses ==
  {[present |-> TRUE, status |-> st, data |-> b, headers |-> [server |-> "h"]] :
     st \in Statuses, b \in Bodies}
NoResponse == [present |-> FALSE, status |-> 0, data |-> "undefined", headers |-> NoMap]
AxiosErrors ==
  {[message |-> "Request failed", code |-> code, response |-> r] :
     code \in {"", "ECONNABORTED"}, r \in Responses \cup {NoResponse}}

ResponseInit ==
  /\ config \in {Config(FALSE, FALSE, "none", "none")}
  /\ Uninvoked
  /\ sample \in
       {[done |-> FALSE, definition |-> d, settles |-> "resolved", res |-> r,
         err |-> [message |-> "", code |-> "", response |-> NoResponse],
         out |-> NoReq] : d \in ResponseDefinitions, r \in Responses}
       \cup
       {[done |-> FALSE, definition |-> d, settles |-> "rejected", res |-> NoResponse,
         err |-> e, out |-> NoReq] : d \in ResponseDefinitions, e \in AxiosErrors}

\* .then(res => { ...; return out; })
MapResponse ==
  /\ ~sample.done /\ sample.settles = "resolved"
  /\ sample' = [sample EXCEPT
                  !.done = TRUE,
                  !.out = [sample.res EXCEPT
                             !.data = ResponseData(sample.definition, sample.res.data)]]
  /\ UNCHANGED <<config, apiPath, pc, opOf, retryParams, callOptions, contentType,
                 retryCount, policyArgs, policy, caught, promise, settled, req,
                 nDispatch, timers>>

\* .catch((err: AxiosError) => ...): the value the attempt is rejected with.
MapError ==
  /\ ~sample.done /\ sample.settles = "rejected"
  /\ LET err == sample.err
     IN sample' = [sample EXCEPT
          !.done = TRUE,
          !.out = IF err.response.present
                  THEN [name |-> "ApiError",
                        message |-> ErrorMessage(sample.definition, err),
                        code |-> IF err.code # "" THEN err.code ELSE "ApiError",
                        status |-> err.response.status,
                        data |-> ErrorData(sample.definition, err.response.data),
                        headers |-> err.response.headers,
                        axiosError |-> err]
                  ELSE err]
  /\ UNCHANGED <<config, apiPath, pc, opOf, retryParams, callOptions, contentType,
                 retryCount, policyArgs, policy, caught, promise, settled, req,
                 nDispatch, timers>>

ResponseNext == MapResponse \/ MapError

ResponseSpec == ResponseInit /\ [][ResponseNext]_vars

\* ======================================================================
\* Properties
\* ======================================================================

\* A step in which call c's .then(delay => ...) callback runs with a result.
Decides(c) == pc[c] = "deciding" /\ pc'[c] # "deciding" /\ policy[c] \in PolicyResults

\* doExecute() ran for call c in this step: it reached the transport call, or
\* a hook threw and the throw was turned into a rejection.
ReRan(c) ==
  \/ pc'[c] = "inflight" /\ nDispatch'[c] = nDispatch[c] + 1
  \/ pc'[c] = "done" /\ promise'[c] = "rejected" /\ settled'[c].kind = "hook"

\* C1: when an attempt fails and a retry policy is configured, the policy's
\* result decides the next step: a negative number or false rejects the
\* promise with the failure of that attempt, with no further transport call;
\* zero runs doExecute again in the same step with no timer; a positive N
\* schedules exactly one timer of duration N, and the transport is called
\* again only in the step in which that timer fires.
C1_PolicyResultDecides ==
  [][\A c \in Calls :
       /\ Decides(c) =>
            LET d == policy[c]
            IN /\ ((d.t = "number" /\ d.n < 0) \/ d.t = "false") =>
                    /\ promise'[c] = "rejected"
                    /\ settled'[c] = caught[c]
                    /\ settled'[c].kind = "transport"
                    /\ nDispatch'[c] = nDispatch[c]
                    /\ timers'[c] = <<>>
                    /\ pc'[c] = "done"
               /\ (d.t = "number" /\ d.n = 0) =>
                    /\ timers'[c] = <<>>
                    /\ ReRan(c)
               /\ (d.t = "number" /\ d.n > 0) =>
                    /\ timers'[c] = <<d.n>>
                    /\ pc'[c] = "delaying"
                    /\ nDispatch'[c] = nDispatch[c]
                    /\ promise'[c] = "pending"
       /\ (timers[c] # <<>> /\ nDispatch'[c] # nDispatch[c]) =>
            timers'[c] = Tail(timers[c])
       /\ pc[c] = "done" => (pc'[c] = "done" /\ nDispatch'[c] = nDispatch[c])
    ]_vars

\* C1 witness: a positive result has scheduled its timer and the call waits.
C1_Witness ==
  \E c \in Calls :
    pc[c] = "delaying" /\ timers[c] = <<RetryDelay>> /\ nDispatch[c] = 1
      /\ policyArgs[c] = <<0>>

\* The retry counts 0, 1, ..., n - 1.
RECURSIVE CountingFrom(_, _)
CountingFrom(s, k) ==
  s = <<>> \/ (Head(s) = k /\ CountingFrom(Tail(s), k + 1))

\* C2: within one invocation the retry counts handed to the policy are
\* 0, 1, 2, ... in order, each the number of earlier policy calls of that
\* chain; and a step that changes one chain's counter or its record of policy
\* calls is a step of that chain alone: no other call's state changes in it.
C2_RetryCountPerChain ==
  /\ [](\A c \in Calls :
          /\ CountingFrom(policyArgs[c], 0)
          /\ retryCount[c] = Len(policyArgs[c]))
  /\ [][\A c \in Calls :
          (retryCount'[c] # retryCount[c] \/ policyArgs'[c] # policyArgs[c]) =>
            /\ retryCount'[c] = retryCount[c] + 1
            /\ policyArgs'[c] = Append(policyArgs[c], retryCount[c])
            /\ pc[c] = "inflight"
            /\ \A o \in Calls \ {c} :
                 /\ retryCount'[o] = retryCount[o]
                 /\ policyArgs'[o] = policyArgs[o]
                 /\ pc'[o] = pc[o]
     ]_vars

\* C2 witness: two chains interleaved, one at its second policy call while
\* the other awaits its first.
C2_Witness ==
  \E a, b \in Calls :
    /\ a # b
    /\ policyArgs[a] = <<0, 1>> /\ pc[a] = "deciding"
    /\ policyArgs[b] = <<0>> /\ pc[b] = "deciding"

\* The states of a chain that has a callback, a transport call or a timer
\* outstanding: something will still run for it.
Outstanding == {"resolving", "inflight", "deciding", "delaying"}

\* C3: every failure of an attempt surfaces as a rejection unless a later
\* attempt succeeds: a promise given to the caller is never left pending once
\* nothing more of its chain is outstanding, whichever attempt failed (first,
\* immediate re-run, re-run from a timer) and however (transport rejection,
\* hook exception).
C3_NeverLeftPending ==
  \A c \in Calls : promise[c] = "pending" => pc[c] \in Outstanding

\* C4: a failure raised by a rewrite, resolver or security hook is treated like
\* any other attempt failure: with a retry policy configured, a promise is
\* rejected with such a failure only after the policy was called for the
\* attempt it belongs to.
C4_HookFailureReachesPolicy ==
  \A c \in Calls :
    (config.retryHandler /\ promise[c] = "rejected"
       /\ settled[c].kind \in {"hook", "resolver"}) =>
      Len(policyArgs[c]) >= (IF settled[c].attempt > 1 THEN settled[c].attempt ELSE 1)

\* The request doExecute assembles for call c from the operation's original
\* path template and the arguments and content type now in force.
FromTemplate(c) ==
  BuildRequest(config, opOf[c], callOptions[c], contentType[c],
               Operation(opOf[c]).path).request

InFlight(c) == req[c].method # "none"

\* C5: on every attempt of every invocation the request path is computed from
\* the operation's original path template and the arguments in force for that
\* attempt.
C5_PathFromTemplate ==
  \A c \in Calls : InFlight(c) => req[c].url.pathname = FromTemplate(c).url.pathname

\* C6: invocations are independent: under any interleaving, the URL, headers,
\* query and body of each dispatched request are those computed from that
\* invocation's own arguments and the configuration alone, and its retry count
\* is the number of its own earlier attempts.
C6_RequestFromOwnArguments ==
  \A c \in Calls :
    InFlight(c) => (req[c] = FromTemplate(c) /\ retryCount[c] = nDispatch[c] - 1)

\* A step in which call c's .catch(reject) runs with the policy's failure.
PolicyFailed(c) == pc[c] = "deciding" /\ pc'[c] # "deciding" /\ policy[c] \in PolicyFailures

\* C7: when the retry policy call itself fails, by throwing or by a rejected
\* promise, the call ends at once: the promise is rejected with the policy's
\* failure, not the attempt failure that triggered the decision, and the chain
\* makes no further transport or policy call.
C7_PolicyFailureTerminates ==
  [][\A c \in Calls :
       /\ PolicyFailed(c) =>
            /\ pc'[c] = "done"
            /\ promise'[c] = "rejected"
            /\ settled'[c].kind = "policy"
            /\ settled'[c] # caught[c]
            /\ caught[c].kind = "transport"
            /\ nDispatch'[c] = nDispatch[c]
            /\ policyArgs'[c] = policyArgs[c]
            /\ timers'[c] = <<>>
       /\ (pc[c] = "done" /\ settled[c].kind = "policy") =>
            /\ pc'[c] = "done"
            /\ promise'[c] = promise[c] /\ settled'[c] = settled[c]
            /\ nDispatch'[c] = nDispatch[c]
            /\ policyArgs'[c] = policyArgs[c]
            /\ timers'[c] = <<>>
    ]_vars

\* C7 witness: a call rejected with the policy's failure after one attempt.
C7_Witness ==
  \E c \in Calls :
    /\ pc[c] = "done" /\ promise[c] = "rejected" /\ settled[c].kind = "policy"
    /\ nDispatch[c] = 1 /\ policyArgs[c] = <<0>>

\* C8: with no retry policy configured, the retry loop of an invocation makes
\* exactly one attempt: the transport is called at most once, no timer is
\* scheduled, no policy is called, and a failed attempt rejects the promise
\* with that attempt's failure.
C8_NoPolicyOneAttempt ==
  ~config.retryHandler =>
    \A c \in Calls :
      /\ nDispatch[c] <= 1
      /\ timers[c] = <<>>
      /\ policyArgs[c] = <<>> /\ retryCount[c] = 0
      /\ pc[c] \in {"idle", "threw", "resolving", "inflight", "done"}
      /\ pc[c] = "inflight" => nDispatch[c] = 1
      /\ pc[c] = "done" =>
           \/ promise[c] = "resolved" /\ settled[c].kind = "response"
                /\ settled[c].attempt = 1 /\ nDispatch[c] = 1
           \/ promise[c] = "rejected" /\ settled[c].kind = "transport"
                /\ settled[c].attempt = 1 /\ nDispatch[c] = 1
           \/ promise[c] = "rejected" /\ settled[c].kind = "hook"
                /\ settled[c].attempt = 1 /\ nDispatch[c] = 0
           \/ promise[c] = "rejected" /\ settled[c].kind = "resolver"
                /\ nDispatch[c] = 0

\* C8 witness: without a policy, a call rejected with its one attempt's
\* transport failure.
C8_Witness ==
  /\ ~config.retryHandler
  /\ \E c \in Calls :
       /\ pc[c] = "done" /\ promise[c] = "rejected"
       /\ settled[c] = Outcome("transport", "no-response", 1)
       /\ nDispatch[c] = 1

\* C9 as claimed: on every attempt the 'content-type' header is the result of
\* resolving the payload of that attempt's arguments.
C9_ContentTypePerAttempt ==
  \A c \in Calls :
    InFlight(c) =>
      /\ "content-type" \in DOMAIN req[c].headers
      /\ req[c].headers["content-type"] = NegotiatedContentType(config, callOptions[c])

\* C9 as amended: the content type is negotiated once per invocation, from the
\* payload of the caller's arguments, and every attempt's 'content-type'
\* header carries that value, whatever the argument rewriter made of the
\* payload.
C9_ContentTypePerInvocation ==
  \A c \in Calls :
    InFlight(c) =>
      /\ "content-type" \in DOMAIN req[c].headers
      /\ req[c].headers["content-type"] = NegotiatedContentType(config, retryParams[c])
      /\ req[c].headers["content-type"] = contentType[c]

\* C9 witness: a retry in flight whose payload the argument rewriter changed.
C9_Witness ==
  \E c \in Calls :
    /\ InFlight(c) /\ nDispatch[c] = 2
    /\ callOptions[c].data # retryParams[c].data
    /\ NegotiatedContentType(config, callOptions[c])
         # NegotiatedContentType(config, retryParams[c])

\* The names of the query pairs of a request, and the texts of its path.
QueryNames(r) == {r.url.search[i].name : i \in DOMAIN r.url.search}
PathAtoms(r) == {r.url.pathname[i] : i \in DOMAIN r.url.pathname}

Declared(o) ==
  {Operation(o).api.parameters[i] : i \in DOMAIN Operation(o).api.parameters}

\* C10: every declared parameter whose name is a key of the bag has the bag's
\* value in the one destination its location names (header map, query list,
\* path placeholder) and in no other; a key of the bag that is not declared
\* appears in none of path, query, headers or the transport's own params.
C10_ParameterRouting ==
  \A c \in Calls :
    InFlight(c) =>
      LET bag  == callOptions[c].params
          r    == req[c]
          decl == Declared(opOf[c])
      IN /\ \A p \in decl :
              p.name \in DOMAIN bag =>
                /\ p.in = "header" <=>
                     (p.name \in DOMAIN r.headers /\ r.headers[p.name] = bag[p.name])
                /\ p.in = "query" <=>
                     (\E i \in DOMAIN r.url.search :
                        r.url.search[i] = [name |-> p.name, value |-> bag[p.name]])
                /\ p.in = "path" <=> bag[p.name] \in PathAtoms(r)
         /\ \A k \in DOMAIN bag \ {p.name : p \in decl} :
              /\ k \notin DOMAIN r.headers
              /\ k \notin QueryNames(r)
              /\ bag[k] \notin PathAtoms(r)
              /\ k \notin DOMAIN r.params

\* The headers the binder produced for the sampled attempt, and what the
\* security context in force made of them.
SampleBound ==
  BindParams(Operation(sample.o).api.parameters, sample.arg.params,
             Operation(sample.o).path, NegotiatedContentType(config, sample.arg)).headers

SampleContext ==
  IF config.apiSecurityContext # "none" THEN config.apiSecurityContext
  ELSE config.securityContext

SampleReplaced ==
  IF SampleContext = "none" THEN SampleBound ELSE headerReplacer(SampleContext, SampleBound)

\* C11: header precedence, lowest to highest, is bound headers, the security
\* context's header replacer output, the per-call headers: every key of the
\* per-call headers is dispatched with the per-call value, every other key
\* with the replacer's output (the bound headers when no context is
\* configured), and nothing else is dispatched.
C11_HeaderPrecedence ==
  sample.done =>
    LET h == sample.out.headers
        perCall == sample.arg.headers
    IN /\ DOMAIN h = DOMAIN SampleReplaced \cup DOMAIN perCall
       /\ \A k \in DOMAIN perCall : h[k] = perCall[k]
       /\ \A k \in DOMAIN SampleReplaced \ DOMAIN perCall : h[k] = SampleReplaced[k]

\* C11 witness: the replacer sets Authorization, the binder sets Auth and
\* content-type, and the per-call headers carry other values for all three.
C11_Witness ==
  /\ sample.done
  /\ SampleContext # "none"
  /\ {"Authorization", "Auth", "content-type"} \subseteq DOMAIN sample.arg.headers
  /\ {"Auth", "content-type"} \subseteq DOMAIN SampleBound
  /\ SampleReplaced["Authorization"] # sample.arg.headers["Authorization"]
  /\ SampleBound["Auth"] # sample.arg.headers["Auth"]
  /\ sample.out.headers["Authorization"] = "Y"
  /\ sample.out.headers["Auth"] = "mine"

\* C12: a transport failure without a received response is rejected as the
\* very same error value; one with a response is always replaced by an
\* ApiError with the response's status and headers, the descriptor's
\* description for that status as message when there is one and the transport
\* error's message otherwise, and the transport error's code or else 'ApiError'.
C12_FailureClassification ==
  (sample.done /\ sample.settles = "rejected") =>
    LET err == sample.err
        out == sample.out
    IN IF ~err.response.present
       THEN out = err
       ELSE /\ out # err
            /\ out.name = "ApiError"
            /\ out.status = err.response.status
            /\ out.headers = err.response.headers
            /\ out.message =
                 (IF sample.definition.present /\ sample.definition.description # ""
                  THEN sample.definition.description ELSE "Request failed")
            /\ out.code = (IF err.code = "" THEN "ApiError" ELSE err.code)

\* C12 witness: a 404 with a described response and no transport code, mapped.
C12_Witness ==
  /\ sample.done /\ sample.settles = "rejected"
  /\ sample.err.response.present /\ sample.err.response.status = 404
  /\ sample.err.code = ""
  /\ sample.definition.present /\ sample.definition.description = "Not found"
  /\ sample.out.message = "Not found" /\ sample.out.code = "ApiError"

EndsWithSlash(t) == t # <<>> /\ t[Len(t)] = Slash
StartsWithSlash(t) == t # <<>> /\ t[1] = Slash

\* A text without its one trailing, or its one leading, slash.
DropTrailing(t) == IF EndsWithSlash(t) THEN SubSeq(t, 1, Len(t) - 1) ELSE t
DropLeading(t) == IF StartsWithSlash(t) THEN Tail(t) ELSE t

\* The three rules of the join.
JoinRules(a, b, out) ==
  /\ (EndsWithSlash(a) /\ StartsWithSlash(b)) => out = a \o Tail(b)
  /\ (~EndsWithSlash(a) /\ ~StartsWithSlash(b)) => out = a \o <<Slash>> \o b
  /\ (EndsWithSlash(a) # StartsWithSlash(b)) => out = a \o b

\* C13 as claimed: for every a and b, when both "a ends with /" and "b starts
\* with /" hold one of the two slashes is dropped, when neither holds one slash
\* is inserted, when exactly one holds the texts are concatenated literally.
C13_OneSlashAlways ==
  sample.done => JoinRules(sample.a, sample.b, sample.out)

\* C13 as amended: the three rules hold for non-empty a and b, and then the
\* result is the same for the four slash variants of a base and a path (the
\* base without its trailing slash, one slash, the path without its leading
\* slash); when a or b is empty the result is the literal concatenation, with
\* no slash inserted.
C13_OneSlashNonEmpty ==
  sample.done =>
    IF sample.a = <<>> \/ sample.b = <<>>
    THEN sample.out = sample.a \o sample.b
    ELSE /\ JoinRules(sample.a, sample.b, sample.out)
         /\ sample.out = DropTrailing(sample.a) \o <<Slash>> \o DropLeading(sample.b)

\* C13 witness: a base ending with a slash joined to a path starting with one.
C13_Witness ==
  /\ sample.done
  /\ sample.a = <<"h", Slash>> /\ sample.b = <<Slash, "b">>
  /\ sample.out = <<"h", Slash, "b">>

\* C14: a non-empty value of a configured resolver is the content type;
\* otherwise the rules binary, structured, text apply in that order and the
\* first match decides: a binary payload gives application/octet-stream and
\* never the JSON type, any other payload whose typeof is 'object' gives
\* application/json;charset=utf-8, a text payload and any payload matching no
\* rule give text/plain.
C14_ContentNegotiation ==
  sample.done =>
    /\ ~config.contentTypeResolver => sample.resolved = ""
    /\ sample.out =
         (IF sample.resolved # "" THEN sample.resolved
          ELSE IF sample.data = "buffer" THEN "application/octet-stream"
          ELSE IF sample.data \in {"object", "array", "null"}
            THEN "application/json;charset=utf-8"
          ELSE "text/plain")

\* C14 witness: a binary payload classified by default, a resolver being
\* configured and answering nothing.
C14_Witness ==
  /\ sample.done /\ config.contentTypeResolver
  /\ sample.resolved = "" /\ sample.data = "buffer"
  /\ sample.out = "application/octet-stream"

\* C15: the data of the ApiError of a failed attempt with a response is
\* obtained as the success path obtains the data of a response with the same
\* descriptor and body: built by the registered constructor, converted by the
\* generic structural conversion, or passed through raw, alike in both.
C15_ErrorDataAsSuccessData ==
  (sample.done /\ sample.settles = "rejected" /\ sample.err.response.present) =>
    sample.out.data.how =
      ResponseData(sample.definition, sample.err.response.data).how

\* C16: when the retry policy's result is a negative number or a
\* false-equivalent other than the number zero (false, null, undefined), the
\* call aborts: the promise is rejected with the failure of the attempt, and
\* neither a transport call nor a timer follows.
C16_FalseEquivalentAborts ==
  [][\A c \in Calls :
       (Decides(c) /\ (\/ policy[c].t \in {"false", "nullish"}
                       \/ (policy[c].t = "number" /\ policy[c].n < 0))) =>
         /\ pc'[c] = "done"
         /\ promise'[c] = "rejected"
         /\ settled'[c] = caught[c]
         /\ nDispatch'[c] = nDispatch[c]
         /\ timers'[c] = <<>>
    ]_vars

\* The first given of a list of texts, "" standing for one not given.
RECURSIVE FirstGiven(_)
FirstGiven(texts) ==
  IF texts = <<>> THEN ""
  ELSE IF Head(texts) # "" THEN Head(texts) ELSE FirstGiven(Tail(texts))

\* The sampled attempt's step (1): effective base URL joined to the substituted
\* path; and its final query set.
SampleJoined ==
  LET base == IF sample.arg.baseURL # <<>> THEN sample.arg.baseURL ELSE config.baseUrl
      path == BindParams(Operation(sample.o).api.parameters, sample.arg.params,
                         Operation(sample.o).path, "").path
  IN ParseURL(urlConcat(base, path))

SampleQueries ==
  LET merged == BindParams(Operation(sample.o).api.parameters, sample.arg.params,
                           Operation(sample.o).path, "").queries \o sample.arg.queries
  IN IF SampleContext = "none" THEN merged ELSE queryReplacer(SampleContext, merged)

\* C17: the target URL is built in a fixed order, later steps overriding
\* earlier ones: (1) effective base URL joined to the substituted path, (2) the
\* per-call protocol/host, (3) the host rewriter's protocol/host, a field it
\* does not give leaving the current one, (4) the URL rewriter's URL, an empty
\* answer keeping the assembled one; the final query set (bound, then per-call,
\* then through the query replacer) is appended after step (4) to whichever
\* URL resulted.
C17_UrlAssemblyOrder ==
  sample.done =>
    LET url     == sample.out.url
        hooked  == IF config.hostRewriter THEN sample.hostResult
                   ELSE [protocol |-> "", host |-> ""]
        origin  == [protocol |-> FirstGiven(<<hooked.protocol, sample.arg.protocol,
                                              SampleJoined.protocol>>),
                    host     |-> FirstGiven(<<hooked.host, sample.arg.host,
                                              SampleJoined.host>>)]
        kind    == IF config.urlRewriter THEN sample.urlKind ELSE "nothing"
    IN /\ kind = "nothing" =>
            /\ url.protocol = origin.protocol /\ url.host = origin.host
            /\ url.pathname = SampleJoined.pathname
            /\ url.search = SampleQueries
       /\ kind = "moved" =>
            /\ url.protocol = origin.protocol /\ url.host = "url.host"
            /\ url.pathname = SampleJoined.pathname
            /\ url.search = SampleQueries
       /\ kind = "own" =>
            /\ url.protocol = "https:" /\ url.host = "own.host"
            /\ url.pathname = <<Slash, "own">>
            /\ url.search = <<[name |-> "own", value |-> "1"]>> \o SampleQueries

\* C17 witness: a per-call protocol and host, a host rewriter answering a host
\* alone, a URL rewriter answering nothing, and a query set of three sources.
C17_Witness ==
  /\ sample.done /\ sample.o = "getPet" /\ sample.arg = ArgOrigin
  /\ config.hostRewriter /\ config.urlRewriter /\ config.securityContext = "client"
  /\ sample.hostResult = [protocol |-> "", host |-> "rewritten.host"]
  /\ sample.urlKind = "nothing"
  /\ sample.out.url.protocol = "ftp:" /\ sample.out.url.host = "rewritten.host"
  /\ Len(sample.out.url.search) >= 2

\* C18: for the operation whose path template holds {id} twice, called with id
\* in the parameter bag, the path of every dispatched request (first attempt,
\* retry, later invocation) has the first occurrence replaced by the value of
\* that call and the second still the literal text {id}.
C18_FirstOccurrenceOnly ==
  \A c \in Calls :
    (InFlight(c) /\ opOf[c] = "copyPet" /\ "id" \in DOMAIN callOptions[c].params) =>
      req[c].url.pathname =
        <<Slash, "v1", Slash, "pets", Slash, callOptions[c].params["id"],
          Slash, "copy", Slash, Placeholder("id")>>

\* The security context the claim has in force for call c's attempts.
ContextInForce(c) ==
  IF callOptions[c].securityContext # "none" THEN callOptions[c].securityContext
  ELSE IF config.apiSecurityContext # "none" THEN config.apiSecurityContext
  ELSE config.securityContext

\* The contexts whose query replacer has marked request r.
MarkedBy(r) ==
  {r.url.search[i].value : i \in {j \in DOMAIN r.url.search : r.url.search[j].name = "token"}}

\* C19: the replacers applied to an invocation's attempts are those of the
\* per-call security context when the arguments carry one, and otherwise those
\* of the configured one, API-level options first, else client-level.
C19_PerCallSecurityContext ==
  \A c \in Calls :
    InFlight(c) =>
      MarkedBy(req[c]) = (IF ContextInForce(c) = "none" THEN {} ELSE {ContextInForce(c)})

\* C20: the promise of an invocation is settled at most once, and a successful
\* attempt finishes the chain: the promise is resolved with that attempt's
\* response envelope, and from then on no policy call, no change of the retry
\* count, no transport call and no timer happens for that invocation.
C20_SettledOnceSuccessFinal ==
  [][\A c \in Calls :
       /\ promise[c] \in {"resolved", "rejected"} =>
            (promise'[c] = promise[c] /\ settled'[c] = settled[c])
       /\ (pc[c] = "inflight" /\ promise'[c] = "resolved") =>
            /\ promise[c] = "pending"
            /\ settled'[c] = Outcome("response", "status-200", nDispatch[c])
            /\ pc'[c] = "done"
            /\ policyArgs'[c] = policyArgs[c] /\ retryCount'[c] = retryCount[c]
            /\ nDispatch'[c] = nDispatch[c] /\ timers'[c] = <<>>
       /\ promise'[c] = "resolved" => (promise[c] = "resolved" \/ pc[c] = "inflight")
       /\ promise[c] = "resolved" =>
            /\ pc[c] = "done" /\ pc'[c] = "done"
            /\ policyArgs'[c] = policyArgs[c] /\ retryCount'[c] = retryCount[c]
            /\ nDispatch'[c] = nDispatch[c]
            /\ timers'[c] = <<>> /\ req'[c] = NoReq
    ]_vars

\* C20 witness: a call resolved by its second attempt, after one policy call,
\* while another call is still under way.
C20_Witness ==
  \E a, b \in Calls :
    /\ a # b
    /\ pc[a] = "done" /\ promise[a] = "resolved"
    /\ settled[a] = Outcome("response", "status-200", 2)
    /\ policyArgs[a] = <<0>> /\ timers[a] = <<>>
    /\ pc[b] = "delaying"

====
